---- MODULE Spec2Model ----
(***************************************************************************)
(* A model of igel's console script (src/igel/cli.py): one process run of  *)
(* `igel <command> [-key value]...` from construction of CLI() to process  *)
(* exit, and the table renderer CLI._tableize.                             *)
(*                                                                         *)
(* A Python str is modelled as a sequence of chunks.  A chunk is either a  *)
(* single separator character ("-", " ", "\t") or a non-empty run of       *)
(* characters holding none of the separators the code looks at.  The empty *)
(* str is <<>>.  Keys of dicts, which the code compares with literals, are *)
(* TLA+ strings.                                                           *)
(***************************************************************************)
EXTENDS Integers, Sequences, FiniteSets, TLC

VARIABLES
    argv,        \* sys.argv[1:], a sequence of str
    pc,          \* position of the process in CLI.__init__ and the handlers
    cmd,         \* self.cmd.command
    args,        \* self.args
    dict_args,   \* self.dict_args, an insertion-ordered dict
    frame,       \* local variables of the running handler
    stdin_read,  \* the lines input() has returned, oldest first
    calls,       \* the opaque calls issued, oldest first
    returned,    \* how many of the opaque calls have returned
    invoked,     \* the attributes getattr(self, cmd)() has called
    stdout,      \* the messages printed, oldest first
    exit_code,   \* the exit code of the process, -1 while it runs
    error,       \* the uncaught exception that ended the process, or "none"
    df,          \* the DataFrame handed to _tableize
    out,         \* the lines _tableize has built
    col_sizes,   \* _tableize's col_sizes
    row_idx      \* the row _tableize's loop is at

vars == <<argv, pc, cmd, args, dict_args, frame, stdin_read, calls, returned, invoked,
          stdout, exit_code, error, df, out, col_sizes, row_idx>>

cliVars == <<argv, pc, cmd, args, dict_args, frame, stdin_read, calls, returned, invoked,
             stdout, exit_code, error>>

tableVars == <<df, out, col_sizes, row_idx>>

(***************************************************************************)
(* str helpers                                                             *)
(***************************************************************************)
Hyphen == "-"
Space == " "
Tab == "\t"
Whitespace == {Space, Tab}

\* str(s) made of the one chunk s
S(s) == <<s>>

RECURSIVE Concat(_)
\* the characters of a chunk sequence as one TLA+ string
Concat(s) == IF s = <<>> THEN "" ELSE Head(s) \o Concat(Tail(s))

RECURSIVE Filter(_, _)
Filter(s, drop) ==
    IF s = <<>> THEN <<>>
    ELSE IF Head(s) \in drop THEN Filter(Tail(s), drop)
    ELSE <<Head(s)>> \o Filter(Tail(s), drop)

\* s.replace('-', '') as used on a key: every hyphen is removed
ReplaceHyphens(s) == Concat(Filter(s, {Hyphen}))

RECURSIVE LStrip(_)
LStrip(s) == IF s # <<>> /\ Head(s) \in Whitespace THEN LStrip(Tail(s)) ELSE s

RECURSIVE RStrip(_)
RStrip(s) ==
    IF s # <<>> /\ s[Len(s)] \in Whitespace
    THEN RStrip(SubSeq(s, 1, Len(s) - 1))
    ELSE s

\* s.strip()
Strip(s) == RStrip(LStrip(s))

RECURSIVE SplitOn(_, _, _)
\* s.split(sep) for a one-character sep: cur is the piece being read
SplitOn(s, sep, cur) ==
    IF s = <<>> THEN <<cur>>
    ELSE IF Head(s) = sep THEN <<cur>> \o SplitOn(Tail(s), sep, <<>>)
    ELSE SplitOn(Tail(s), sep, Append(cur, Head(s)))

\* s.split(' ')
SplitSpace(s) == SplitOn(s, Space, <<>>)

(***************************************************************************)
(* insertion-ordered dicts: a sequence of [k, v] with distinct k           *)
(***************************************************************************)
EmptyDict == <<>>

Keys(d) == {d[i].k : i \in DOMAIN d}

Get(d, key) == d[CHOOSE i \in DOMAIN d : d[i].k = key].v

\* d[key] = value
SetItem(d, key, value) ==
    IF key \in Keys(d)
    THEN [i \in DOMAIN d |-> IF d[i].k = key THEN [k |-> key, v |-> value] ELSE d[i]]
    ELSE Append(d, [k |-> key, v |-> value])

RECURSIVE Pop(_, _)
\* d.pop(key)
Pop(d, key) ==
    IF d = <<>> THEN <<>>
    ELSE IF Head(d).k = key THEN Tail(d)
    ELSE <<Head(d)>> \o Pop(Tail(d), key)

\* the keyword arguments **d: order does not matter to the callee
Kwargs(d) == [key \in Keys(d) |-> Get(d, key)]

(***************************************************************************)
(* CLI.available_args                                                      *)
(***************************************************************************)
\* available_args whose entry for tg keeps the short form
available_args_short_kept ==
    [dp |-> "data_path", yml |-> "yaml_path", DP |-> "data_paths",
     name |-> "model_name", model |-> "model_name", type |-> "model_type",
     tg |-> "tg"]

\* available_args with an entry for cmd
available_args_with_cmd ==
    [dp |-> "data_path", yml |-> "yaml_path", DP |-> "data_paths",
     name |-> "model_name", model |-> "model_name", type |-> "model_type",
     tg |-> "target", cmd |-> "cmd"]

available_args ==
    [dp |-> "data_path", yml |-> "yaml_path", DP |-> "data_paths",
     name |-> "model_name", model |-> "model_name", type |-> "model_type",
     tg |-> "target"]

available_args_values == {available_args[k] : k \in DOMAIN available_args}

RECURSIVE validate_loop(_, _)
\* the loop of validate_args over dict_args.items(), d_args built so far
validate_loop(items, d_args) ==
    IF items = <<>> THEN [ok |-> TRUE, d |-> d_args]
    ELSE LET k == Head(items).k
             v == Head(items).v
         IN IF k \notin DOMAIN available_args /\ k \notin available_args_values
            THEN [ok |-> FALSE, d |-> d_args]
            ELSE IF k \in available_args_values
            THEN validate_loop(Tail(items), SetItem(d_args, k, v))
            ELSE validate_loop(Tail(items), SetItem(d_args, available_args[k], v))

validate_args(d) == validate_loop(d, EmptyDict)

RECURSIVE pair_args_keeps_last(_, _, _)
\* pair_args that pairs an unpaired last token with an empty value
pair_args_keeps_last(a, i, d) ==
    IF i > Len(a) THEN d
    ELSE IF i = Len(a) THEN SetItem(d, ReplaceHyphens(a[i]), <<>>)
    ELSE pair_args_keeps_last(a, i + 2, SetItem(d, ReplaceHyphens(a[i]), a[i + 1]))

RECURSIVE pair_args(_, _, _)
\* the dict comprehension of convert_args_to_dict: i runs over range(0, len - 1, 2)
\* (here 1-based)
pair_args(a, i, d) ==
    IF i + 1 > Len(a) THEN d
    ELSE pair_args(a, i + 2, SetItem(d, ReplaceHyphens(a[i]), a[i + 1]))

\* convert_args_to_dict: [ok, d]; not ok is exit(1) from validate_args
convert_args_to_dict(a, command) ==
    LET r == validate_args(pair_args(a, 1, EmptyDict))
    IN IF r.ok THEN [ok |-> TRUE, d |-> SetItem(r.d, "cmd", S(command))]
       ELSE r

(***************************************************************************)
(* the command lines drawn                                                 *)
(***************************************************************************)
\* most flags of a remainder drawn for a command that reads its flags
MaxPairs == 3
\* most flags of a remainder drawn for any command token, every spelling
MaxSpelledPairs == 1

\* the commands of the usage text
Commands ==
    {"init", "fit", "evaluate", "predict", "experiment", "gui", "help", "info",
     "version", "models", "metrics"}

\* the other attributes of a CLI object when parse_command runs: the class
\* attribute, the methods that are no command, and self.parser (self.cmd,
\* self.args and self.dict_args are assigned later)
OtherAttributes ==
    {"available_args", "validate_args", "convert_args_to_dict", "parse_command",
     "_accept_user_input", "_print_models_overview", "_show_model_infos",
     "_tableize", "parser"}

\* command tokens drawn: every attribute, two names that are none, and
\* tokens argparse reads as options
CommandTokens ==
    {S(c) : c \in Commands \cup OtherAttributes \cup {"cmd", "foo"}}
    \cup {<<Hyphen, "h">>, <<Hyphen, Hyphen, "help">>, <<Hyphen, "x">>}

\* the commands whose handler reads self.dict_args
ArgCommands == {"init", "fit", "evaluate", "predict", "experiment", "models"}

\* values of data_paths: single spaces, surrounding whitespace, runs of
\* spaces, tabs, and one, two and four paths
DataPathsValues ==
    {<<"a.csv", Space, "b.csv", Space, "c.csv">>,
     <<Space, "a.csv", Space, "b.csv", Space, "c.csv", Space>>,
     <<"a.csv", Space, Space, "b.csv", Space, "c.csv">>,
     <<"a.csv", Tab, "b.csv", Tab, "c.csv">>,
     <<"a.csv", Space, Space, "b.csv">>,
     <<"a.csv", Space, "b.csv">>,
     <<"a.csv", Tab, "b.csv", Space, "c.csv", Space, "d.csv">>,
     <<"a.csv", Space, "b.csv", Space, "c.csv", Space, "d.csv">>,
     <<"a.csv">>}

ModelTypeValues == {S("regression"), S("bogus"), <<>>}

\* every spelling of every flag, and keys that are no flag
SpelledKeys ==
    {<<Hyphen, "dp">>, <<Hyphen, Hyphen, "data_path">>, <<"data_path">>,
     <<Hyphen, "yml">>, <<Hyphen, Hyphen, "yaml_path">>,
     <<Hyphen, "DP">>, <<Hyphen, Hyphen, "data_paths">>,
     <<Hyphen, "name">>, <<Hyphen, "model">>, <<Hyphen, Hyphen, "model_name">>,
     <<Hyphen, "type">>, <<Hyphen, Hyphen, "model_type">>,
     <<Hyphen, "tg">>, <<Hyphen, Hyphen, "target">>,
     <<Hyphen, "foo">>, <<Hyphen, "cmd">>, <<Hyphen, Hyphen, "cmd">>,
     <<Hyphen, Hyphen>>,
     <<"d", Hyphen, "p">>, <<"y", Hyphen, "ml">>,
     <<Hyphen, "data_", Hyphen, "path">>}

SpelledPairs == {<<k, S("x.csv")>> : k \in SpelledKeys}

\* the flags drawn in depth for a command that reads its flags
CorePairs(c) ==
    {<<<<Hyphen, "dp">>, S("x.csv")>>, <<<<Hyphen, "dp">>, S("z.csv")>>,
     <<<<Hyphen, Hyphen, "data_path">>, S("x.csv")>>,
     <<<<Hyphen, Hyphen, "data_path">>, S("z.csv")>>,
     <<<<Hyphen, "d", Hyphen, "p">>, S("x.csv")>>,
     <<<<Hyphen, "yml">>, S("cfg.yaml")>>,
     <<<<Hyphen, "name">>, S("RandomForest")>>,
     <<<<Hyphen, "foo">>, S("x.csv")>>,
     <<<<Hyphen, "cmd">>, S("predict")>>}
    \cup (IF c = "experiment"
          THEN {<<<<Hyphen, "DP">>, v>> : v \in DataPathsValues}
          ELSE {<<<<Hyphen, "DP">>, <<"a.csv", Space, "b.csv", Space, "c.csv">>>>})
    \cup (IF c = "models"
          THEN {<<<<Hyphen, "type">>, v>> : v \in ModelTypeValues}
          ELSE {})

\* an unpaired last token
DanglingTokens == {<<Hyphen, "foo">>}

\* the token sequence of the (key, value) pairs f[1], ..., f[k]
Tokens(f, k) == [i \in 1..(2 * k) |-> f[(i + 1) \div 2][2 - (i % 2)]]

\* sys.argv[1:] is the command token c, at most n pairs of `pairs`, and an
\* unpaired last token or none
ArgLists(c, pairs, n) ==
    \E k \in 0..n : \E f \in [1..k -> pairs] :
        \E t \in {<<>>} \cup {<<x>> : x \in DanglingTokens} :
            argv = <<c>> \o Tokens(f, k) \o t

\* sys.argv[1:] of the runs drawn
Inputs ==
    \/ argv = <<>>
    \/ \E c \in CommandTokens : ArgLists(c, SpelledPairs, MaxSpelledPairs)
    \/ \E c \in ArgCommands : ArgLists(S(c), CorePairs(c), MaxPairs)

\* the lines a user types: nothing, a path, a model type
Lines == {<<>>, S("typed.csv"), S("regression")}

NoTable == [columns |-> <<>>, rows |-> <<>>]

Init ==
    /\ Inputs
    /\ pc = "start"
    /\ cmd = ""
    /\ args = <<>>
    /\ dict_args = EmptyDict
    /\ frame = [fn |-> "__init__"]
    /\ stdin_read = <<>>
    /\ calls = <<>>
    /\ returned = 0
    /\ invoked = <<>>
    /\ stdout = <<>>
    /\ exit_code = -1
    /\ error = "none"
    /\ df = NoTable
    /\ out = <<>>
    /\ col_sizes = <<>>
    /\ row_idx = 0

(***************************************************************************)
(* process exit                                                            *)
(***************************************************************************)
\* exit(code), or the return of main()
Exit(code, printed) ==
    /\ pc' = "exit"
    /\ exit_code' = code
    /\ stdout' = stdout \o printed
    /\ error' = "none"

\* an uncaught exception: the traceback is printed and the process exits 1
Raise(exc, printed) ==
    /\ pc' = "exit"
    /\ exit_code' = 1
    /\ stdout' = stdout \o printed
    /\ error' = exc

(***************************************************************************)
(* CLI.__init__                                                            *)
(***************************************************************************)
\* hasattr(self, name) at the time parse_command runs
hasattr(name) == name \in Commands \cup OtherAttributes

\* self.parser.parse_args(sys.argv[1:2]) with the one positional `command`:
\* the command string, or argparse's own exit
parse_args(a) ==
    IF a = <<>> THEN [exit |-> 2, printed |-> <<"usage", "argparse error">>]
    ELSE IF Head(a[1]) = Hyphen
    THEN IF Concat(a[1]) \in {"-h", "--help"}
         THEN [exit |-> 0, printed |-> <<"usage">>]
         ELSE [exit |-> 2, printed |-> <<"usage", "argparse error">>]
    ELSE [exit |-> -1, command |-> Concat(a[1])]

\* self.cmd = self.parse_command()
parse_command ==
    /\ pc = "start"
    /\ LET r == parse_args(SubSeq(argv, 1, IF Len(argv) >= 1 THEN 1 ELSE 0))
       IN IF r.exit # -1
          THEN Exit(r.exit, r.printed) /\ cmd' = cmd
          ELSE IF ~hasattr(r.command)
          THEN Exit(1, <<"Unrecognized command", "usage">>) /\ cmd' = cmd
          ELSE /\ cmd' = r.command
               /\ pc' = "parsed"
               /\ UNCHANGED <<exit_code, stdout, error>>
    /\ UNCHANGED <<argv, args, dict_args, frame, stdin_read, calls, returned, invoked>>
    /\ UNCHANGED tableVars

\* self.args = sys.argv[2:]; self.dict_args = self.convert_args_to_dict()
convert_args ==
    /\ pc = "parsed"
    /\ args' = Tail(argv)
    /\ LET r == convert_args_to_dict(Tail(argv), cmd)
       IN IF r.ok
          THEN /\ dict_args' = r.d
               /\ pc' = "converted"
               /\ UNCHANGED <<exit_code, stdout, error>>
          ELSE /\ Exit(1, <<"Unrecognized argument", "usage">>)
               /\ dict_args' = dict_args
    /\ UNCHANGED <<argv, cmd, frame, stdin_read, calls, returned, invoked>>
    /\ UNCHANGED tableVars

\* getattr(self, self.cmd.command)(): the attribute is called with no argument
dispatch ==
    /\ pc = "converted"
    /\ IF cmd \in {"parser", "available_args"}
       THEN \* an ArgumentParser and a dict are not callable
            Raise("TypeError", <<>>) /\ invoked' = invoked
       ELSE IF cmd \in {"validate_args", "_show_model_infos", "_tableize"}
       THEN \* a required positional argument is missing
            Raise("TypeError", <<>>) /\ invoked' = invoked
       ELSE /\ invoked' = Append(invoked, cmd)
            /\ pc' = cmd
            /\ UNCHANGED <<exit_code, stdout, error>>
    /\ UNCHANGED <<argv, cmd, args, dict_args, frame, stdin_read, calls, returned>>
    /\ UNCHANGED tableVars

(***************************************************************************)
(* the opaque collaborators: Igel and Igel.create_init_mock_file         *)
(***************************************************************************)
OpaqueOperations == {"Igel", "create_init_mock_file"}

\* the call of fn with keyword arguments kwargs begins; `after` is where the caller goes on
Call(fn, kwargs, locals, after) ==
    /\ calls' = Append(calls, [fn |-> fn, kwargs |-> kwargs])
    /\ pc' = fn
    /\ frame' = [fn |-> locals.fn, locals |-> locals, after |-> after]
    /\ UNCHANGED <<returned, exit_code, stdout, error>>

\* the call returns
opaque_returns ==
    /\ pc \in OpaqueOperations
    /\ IF frame.after = "return"
       THEN Exit(0, <<>>)
       ELSE pc' = frame.after /\ UNCHANGED <<exit_code, stdout, error>>
    /\ returned' = returned + 1
    /\ UNCHANGED <<argv, cmd, args, dict_args, frame, stdin_read, calls, invoked>>
    /\ UNCHANGED tableVars

\* the call fails: nothing catches the exception
opaque_raises ==
    /\ pc \in OpaqueOperations
    /\ Raise("OpaqueError", <<>>)
    /\ UNCHANGED <<argv, cmd, args, dict_args, frame, stdin_read, calls, returned, invoked>>
    /\ UNCHANGED tableVars

(***************************************************************************)
(* input()                                                                 *)
(***************************************************************************)
\* OrDefault that keeps the line read, empty or not
OrDefault_no_default(line, default) == line

\* input(prompt) or default
OrDefault(line, default) == IF line = <<>> THEN default ELSE line

\* input() at end of input
input_eof ==
    /\ pc \in {"_accept_user_input.data_path", "_accept_user_input.yaml_path",
               "experiment.input", "models.input", "init.input"}
    /\ Raise("EOFError", <<>>)
    /\ UNCHANGED <<argv, cmd, args, dict_args, frame, stdin_read, calls, returned, invoked>>
    /\ UNCHANGED tableVars

InteractiveBanner == "You entered interactive mode!"

(***************************************************************************)
(* fit, predict, evaluate and _accept_user_input                           *)
(***************************************************************************)
default_data_path == S("./train_data.csv")
default_yaml_path == S("./igel.yaml")

\* NoFlags that asks whether the mandatory data_path is missing
NoFlags_mandatory_missing(d) == "data_path" \notin Keys(d)

\* `d = dict(self.dict_args); d.pop('cmd'); if not d`
NoFlags(d) == Pop(d, "cmd") = EmptyDict

\* the body shared by fit (yaml_needed), predict and evaluate
run_or_prompt(h, yaml_needed) ==
    /\ pc = h
    /\ IF NoFlags(dict_args)
       THEN /\ pc' = "_accept_user_input.data_path"
            /\ frame' = [fn |-> h, yaml_needed |-> yaml_needed]
            /\ stdout' = Append(stdout, InteractiveBanner)
            /\ UNCHANGED <<calls, returned, exit_code, error>>
       ELSE Call("Igel", Kwargs(dict_args), [fn |-> h], "return")
    /\ UNCHANGED <<argv, cmd, args, dict_args, stdin_read, invoked>>
    /\ UNCHANGED tableVars

fit == run_or_prompt("fit", TRUE)

predict == run_or_prompt("predict", FALSE)

evaluate == run_or_prompt("evaluate", FALSE)

\* _accept_user_input called as the command itself: yaml_needed defaults to False
accept_user_input ==
    /\ pc = "_accept_user_input"
    /\ pc' = "_accept_user_input.data_path"
    /\ frame' = [fn |-> "_accept_user_input", yaml_needed |-> FALSE]
    /\ stdout' = Append(stdout, InteractiveBanner)
    /\ UNCHANGED <<argv, cmd, args, dict_args, stdin_read, calls, returned, invoked,
                   exit_code, error>>
    /\ UNCHANGED tableVars

\* _accept_user_input has returned to frame.fn with self.dict_args = d
accepted(d) ==
    IF frame.fn = "_accept_user_input"
    THEN Exit(0, <<>>) /\ UNCHANGED <<calls, returned, frame>>
    ELSE Call("Igel", Kwargs(d), [fn |-> frame.fn], "return")

\* data_path = input(...) or default_data_path
accept_data_path ==
    /\ pc = "_accept_user_input.data_path"
    /\ \E line \in Lines :
        LET d == SetItem(dict_args, "data_path", OrDefault(line, default_data_path))
        IN /\ stdin_read' = Append(stdin_read, line)
           /\ dict_args' = d
           /\ IF frame.yaml_needed
              THEN /\ pc' = "_accept_user_input.yaml_path"
                   /\ UNCHANGED <<frame, calls, returned, exit_code, stdout, error>>
              ELSE accepted(d)
    /\ UNCHANGED <<argv, cmd, args, invoked>>
    /\ UNCHANGED tableVars

\* yaml_path = input(...) or default_yaml_path
accept_yaml_path ==
    /\ pc = "_accept_user_input.yaml_path"
    /\ \E line \in Lines :
        LET d == SetItem(dict_args, "yaml_path", OrDefault(line, default_yaml_path))
        IN /\ stdin_read' = Append(stdin_read, line)
           /\ dict_args' = d
           /\ accepted(d)
    /\ UNCHANGED <<argv, cmd, args, invoked>>
    /\ UNCHANGED tableVars

(***************************************************************************)
(* experiment                                                              *)
(***************************************************************************)
default_train_data_path == S("./train_data.csv")
default_eval_data_path == S("./eval_data.csv")
default_test_data_path == S("./test_data.csv")

\* the defaults of the four prompts, in the order they are read
experiment_defaults ==
    <<default_train_data_path, default_eval_data_path, default_test_data_path,
      default_yaml_path>>

\* stage_args with the slip of a copied line: pred_args is given the evaluation path
stage_args_reused_path(train_data_path, eval_data_path, pred_data_path, yaml_path) ==
    [fn |-> "experiment",
     train_args |-> [cmd |-> S("fit"), yaml_path |-> yaml_path,
                     data_path |-> train_data_path],
     eval_args |-> [cmd |-> S("evaluate"), data_path |-> eval_data_path],
     pred_args |-> [cmd |-> S("predict"), data_path |-> eval_data_path]]

\* the three dicts prepared before the calls
stage_args(train_data_path, eval_data_path, pred_data_path, yaml_path) ==
    [fn |-> "experiment",
     train_args |-> [cmd |-> S("fit"), yaml_path |-> yaml_path,
                     data_path |-> train_data_path],
     eval_args |-> [cmd |-> S("evaluate"), data_path |-> eval_data_path],
     pred_args |-> [cmd |-> S("predict"), data_path |-> pred_data_path]]

\* train_data_path, eval_data_path, pred_data_path = data_paths.strip().split(' ')
split_data_paths(data_paths) == SplitSpace(Strip(data_paths))

\* Igel(**train_args)
experiment_fit(locals) == Call("Igel", locals.train_args, locals, "experiment.evaluate")

\* experiment that takes a missing yaml_path from the default of the prompt
experiment_yaml_defaulted ==
    /\ pc = "experiment"
    /\ IF NoFlags(dict_args)
       THEN /\ pc' = "experiment.input"
            /\ frame' = [fn |-> "experiment", read |-> <<>>]
            /\ stdout' = Append(stdout, InteractiveBanner)
            /\ UNCHANGED <<calls, returned, exit_code, error>>
       ELSE IF "data_paths" \notin Keys(dict_args)
       THEN Raise("KeyError", <<>>) /\ UNCHANGED <<calls, returned, frame>>
       ELSE LET paths == split_data_paths(Get(dict_args, "data_paths"))
            IN IF Len(paths) # 3
               THEN Raise("ValueError", <<>>) /\ UNCHANGED <<calls, returned, frame>>
               ELSE experiment_fit(stage_args(paths[1], paths[2], paths[3],
                                              IF "yaml_path" \in Keys(dict_args)
                                              THEN Get(dict_args, "yaml_path")
                                              ELSE default_yaml_path))
    /\ UNCHANGED <<argv, cmd, args, dict_args, stdin_read, invoked>>
    /\ UNCHANGED tableVars

\* experiment up to its first blocking point: the first prompt, or Igel(**train_args)
experiment ==
    /\ pc = "experiment"
    /\ IF NoFlags(dict_args)
       THEN /\ pc' = "experiment.input"
            /\ frame' = [fn |-> "experiment", read |-> <<>>]
            /\ stdout' = Append(stdout, InteractiveBanner)
            /\ UNCHANGED <<calls, returned, exit_code, error>>
       ELSE IF "data_paths" \notin Keys(dict_args) \/ "yaml_path" \notin Keys(dict_args)
       THEN Raise("KeyError", <<>>) /\ UNCHANGED <<calls, returned, frame>>
       ELSE LET paths == split_data_paths(Get(dict_args, "data_paths"))
            IN IF Len(paths) # 3
               THEN Raise("ValueError", <<>>) /\ UNCHANGED <<calls, returned, frame>>
               ELSE experiment_fit(stage_args(paths[1], paths[2], paths[3],
                                              Get(dict_args, "yaml_path")))
    /\ UNCHANGED <<argv, cmd, args, dict_args, stdin_read, invoked>>
    /\ UNCHANGED tableVars

\* experiment_input that calls Igel for the fit stage before the yaml path is asked
experiment_input_fit_before_yaml ==
    /\ pc = "experiment.input"
    /\ \E line \in Lines :
        LET read == Append(frame.read,
                           OrDefault(line, experiment_defaults[Len(frame.read) + 1]))
        IN /\ stdin_read' = Append(stdin_read, line)
           /\ IF Len(read) < 3
              THEN /\ frame' = [fn |-> "experiment", read |-> read]
                   /\ UNCHANGED <<pc, calls, returned, exit_code, stdout, error>>
              ELSE experiment_fit(stage_args(read[1], read[2], read[3], default_yaml_path))
    /\ UNCHANGED <<argv, cmd, args, dict_args, invoked>>
    /\ UNCHANGED tableVars

\* one of the four `input(...) or default`, then, after the last, Igel(**train_args)
experiment_input ==
    /\ pc = "experiment.input"
    /\ \E line \in Lines :
        LET read == Append(frame.read,
                           OrDefault(line, experiment_defaults[Len(frame.read) + 1]))
        IN /\ stdin_read' = Append(stdin_read, line)
           /\ IF Len(read) < 4
              THEN /\ frame' = [fn |-> "experiment", read |-> read]
                   /\ UNCHANGED <<pc, calls, returned, exit_code, stdout, error>>
              ELSE experiment_fit(stage_args(read[1], read[2], read[3], read[4]))
    /\ UNCHANGED <<argv, cmd, args, dict_args, invoked>>
    /\ UNCHANGED tableVars

\* experiment_evaluate that does not wait for the fit call to return
experiment_evaluate_unawaited ==
    /\ pc = "Igel"
    /\ frame.after = "experiment.evaluate"
    /\ Call("Igel", frame.locals.eval_args, frame.locals, "experiment.predict")
    /\ UNCHANGED <<argv, cmd, args, dict_args, stdin_read, invoked>>
    /\ UNCHANGED tableVars

\* Igel(**eval_args)
experiment_evaluate ==
    /\ pc = "experiment.evaluate"
    /\ Call("Igel", frame.locals.eval_args, frame.locals, "experiment.predict")
    /\ UNCHANGED <<argv, cmd, args, dict_args, stdin_read, invoked>>
    /\ UNCHANGED tableVars

\* Igel(**pred_args)
experiment_predict ==
    /\ pc = "experiment.predict"
    /\ Call("Igel", frame.locals.pred_args, frame.locals, "return")
    /\ UNCHANGED <<argv, cmd, args, dict_args, stdin_read, invoked>>
    /\ UNCHANGED tableVars

(***************************************************************************)
(* models                                                                  *)
(***************************************************************************)
ModelTypes == {S("regression"), S("classification"), S("clustering")}

ModelsOverview == "Igel's supported models overview"

\* d.get(key, None); None and '' are both read for truth only and are both <<>>
GetOrNone(d, key) == IF key \in Keys(d) THEN Get(d, key) ELSE <<>>

\* _show_model_infos: what is printed and the exception raised, if any; `known`
\* is whether the catalog holds model_name under model_type
show_model_infos(model_name, model_type, known) ==
    IF model_name = <<>>
    THEN [printed |-> <<"Please enter a supported model", ModelsOverview>>,
          error |-> "none"]
    ELSE IF model_type = <<>>
    THEN [printed |-> <<"Please enter a type argument", ModelsOverview>>,
          error |-> "none"]
    ELSE IF model_type \notin ModelTypes
    THEN [printed |-> <<>>, error |-> "Exception"]
    ELSE IF ~known
    THEN [printed |-> <<>>, error |-> "AttributeError"]
    ELSE [printed |-> <<"model infos">>, error |-> "none"]

\* the end of models once model_name and model_type are known
shown(model_name, model_type, printed) ==
    \E known \in BOOLEAN :
        LET r == show_model_infos(model_name, model_type, known)
        IN IF r.error = "none"
           THEN Exit(0, printed \o r.printed)
           ELSE Raise(r.error, printed \o r.printed)

\* models up to its first blocking point
models ==
    /\ pc = "models"
    /\ IF dict_args = EmptyDict \/ Cardinality(Keys(dict_args)) <= 1
       THEN /\ pc' = "models.input"
            /\ frame' = [fn |-> "models", read |-> <<>>]
            /\ stdout' = Append(stdout, ModelsOverview)
            /\ UNCHANGED <<exit_code, error>>
       ELSE /\ shown(GetOrNone(dict_args, "model_name"),
                     GetOrNone(dict_args, "model_type"), <<>>)
            /\ frame' = frame
    /\ UNCHANGED <<argv, cmd, args, dict_args, stdin_read, calls, returned, invoked>>
    /\ UNCHANGED tableVars

\* model_name = input(...); model_type = input(...); `if model_name and model_type`
models_input ==
    /\ pc = "models.input"
    /\ \E line \in Lines :
        LET read == Append(frame.read, line)
        IN /\ stdin_read' = Append(stdin_read, line)
           /\ IF Len(read) < 2
              THEN /\ frame' = [fn |-> "models", read |-> read]
                   /\ UNCHANGED <<pc, exit_code, stdout, error>>
              ELSE /\ frame' = frame
                   /\ IF read[1] # <<>> /\ read[2] # <<>>
                      THEN shown(read[1], read[2], <<>>)
                      ELSE Exit(0, <<>>)
    /\ UNCHANGED <<argv, cmd, args, dict_args, calls, returned, invoked>>
    /\ UNCHANGED tableVars

(***************************************************************************)
(* init                                                                    *)
(***************************************************************************)
init_fields == <<"model_type", "model_name", "target">>
\* target has no default
init_defaults == <<S("regression"), S("NeuralNetwork"), <<>>>>

\* Igel.create_init_mock_file(**d)
create_init_mock_file(d) ==
    Call("create_init_mock_file", Kwargs(d), [fn |-> "init"], "return")

\* init up to its first blocking point
init ==
    /\ pc = "init"
    /\ IF NoFlags(dict_args)
       THEN /\ pc' = "init.input"
            /\ frame' = [fn |-> "init", d |-> EmptyDict]
            /\ stdout' = Append(stdout, InteractiveBanner)
            /\ UNCHANGED <<calls, returned, exit_code, error>>
       ELSE create_init_mock_file(Pop(dict_args, "cmd"))
    /\ UNCHANGED <<argv, cmd, args, dict_args, stdin_read, invoked>>
    /\ UNCHANGED tableVars

\* one of the three prompts, then, after the last, create_init_mock_file
init_input ==
    /\ pc = "init.input"
    /\ \E line \in Lines :
        LET i == Len(frame.d) + 1
            d == SetItem(frame.d, init_fields[i], OrDefault(line, init_defaults[i]))
        IN /\ stdin_read' = Append(stdin_read, line)
           /\ IF i < 3
              THEN /\ frame' = [fn |-> "init", d |-> d]
                   /\ UNCHANGED <<pc, calls, returned, exit_code, stdout, error>>
              ELSE create_init_mock_file(d)
    /\ UNCHANGED <<argv, cmd, args, dict_args, invoked>>
    /\ UNCHANGED tableVars

(***************************************************************************)
(* the commands that read nothing                                          *)
(***************************************************************************)
\* help, version, info, metrics and _print_models_overview print and return
prints ==
    /\ pc \in {"help", "version", "info", "metrics", "_print_models_overview"}
    /\ Exit(0, <<CASE pc = "help" -> "usage"
                   [] pc = "version" -> "igel version"
                   [] pc = "info" -> "package name"
                   [] pc = "metrics" -> "Igel's supported metrics overview"
                   [] OTHER -> ModelsOverview>>)
    /\ UNCHANGED <<argv, cmd, args, dict_args, frame, stdin_read, calls, returned, invoked>>
    /\ UNCHANGED tableVars

\* gui: the subprocesses it waits for succeed, or check_call raises
gui ==
    /\ pc = "gui"
    /\ \E ok \in BOOLEAN :
        IF ok THEN Exit(0, <<"running igel UI">>)
        ELSE Raise("CalledProcessError", <<>>)
    /\ UNCHANGED <<argv, cmd, args, dict_args, frame, stdin_read, calls, returned, invoked>>
    /\ UNCHANGED tableVars

\* parse_command or convert_args_to_dict called again as the command: the
\* result, the same as the first time, is dropped
called_again ==
    /\ pc \in {"parse_command", "convert_args_to_dict"}
    /\ LET p == parse_args(SubSeq(argv, 1, 1))
           c == convert_args_to_dict(args, cmd)
       IN IF pc = "parse_command" /\ (p.exit # -1 \/ ~hasattr(p.command))
          THEN Exit(1, <<"Unrecognized command", "usage">>)
          ELSE IF pc = "convert_args_to_dict" /\ ~c.ok
          THEN Exit(1, <<"Unrecognized argument", "usage">>)
          ELSE Exit(0, <<>>)
    /\ UNCHANGED <<argv, cmd, args, dict_args, frame, stdin_read, calls, returned, invoked>>
    /\ UNCHANGED tableVars

(***************************************************************************)
(* one process run                                                         *)
(***************************************************************************)
Next ==
    \/ parse_command
    \/ convert_args
    \/ dispatch
    \/ fit
    \/ predict
    \/ evaluate
    \/ accept_user_input
    \/ accept_data_path
    \/ accept_yaml_path
    \/ experiment
    \/ experiment_input
    \/ experiment_evaluate
    \/ experiment_predict
    \/ models
    \/ models_input
    \/ init
    \/ init_input
    \/ prints
    \/ gui
    \/ called_again
    \/ input_eof
    \/ opaque_returns
    \/ opaque_raises

Spec == Init /\ [][Next]_vars

(***************************************************************************)
(* CLI._tableize.  The text of a header or a cell is a sequence of         *)
(* one-character chunks, so Len is len().                                  *)
(***************************************************************************)
\* most columns of a table drawn
MaxCols == 2
\* most cells (columns times rows) of a table drawn
MaxCells == 4
\* longest header and longest cell drawn
MaxLen == 2

\* ch * n
Repeat(ch, n) == [i \in 1..n |-> ch]

RECURSIVE Join(_, _)
\* sep.join(parts) for a one-character sep
Join(parts, sep) ==
    IF parts = <<>> THEN <<>>
    ELSE IF Len(parts) = 1 THEN parts[1]
    ELSE parts[1] \o <<sep>> \o Join(Tail(parts), sep)

\* st[:sz]
Prefix(st, sz) == SubSeq(st, 1, IF sz < Len(st) THEN sz ELSE Len(st))

Max(a, b) == IF a >= b THEN a ELSE b

\* max_len_in_lst(lst) for a non-empty lst: len(sorted(lst, reverse=True, key=len)[0])
max_len_in_lst(lst) ==
    CHOOSE n \in {Len(lst[i]) : i \in DOMAIN lst} :
        \A i \in DOMAIN lst : Len(lst[i]) <= n

\* align_center(st, sz)
align_center(st, sz) ==
    IF Len(st) < sz
    THEN LET pad == Repeat(Space, 1 + ((sz - Len(st)) \div 2))
         IN Prefix(pad \o st \o pad, sz)
    ELSE st

\* align_right without the space after the text
align_right_no_trailing(st, sz) ==
    IF Len(st) < sz THEN Repeat(Space, sz - Len(st) - 1) \o st ELSE st

\* align_right(st, sz)
align_right(st, sz) ==
    IF Len(st) < sz
    THEN Repeat(Space, sz - Len(st) - 1) \o st \o <<Space>>
    ELSE st

\* df.iloc[:, idx]
Column(t, idx) == [r \in DOMAIN t.rows |-> t.rows[r][idx]]

\* max_col_len
max_col_len(t) == max_len_in_lst(t.columns)

\* max_val_len_for_col[t.columns[idx]]
max_val_len_for_col(t, idx) == max_len_in_lst(Column(t, idx))

\* build_col_sizes with the column's own header in place of max_col_len
build_col_sizes_own_header(t) ==
    [col \in {t.columns[i] : i \in DOMAIN t.columns} |->
        LET idx == CHOOSE i \in DOMAIN t.columns : t.columns[i] = col
        IN 2 + Max(max_val_len_for_col(t, idx), Len(col))]

\* col_sizes, a dict keyed by column name
build_col_sizes(t) ==
    [col \in {t.columns[i] : i \in DOMAIN t.columns} |->
        LET idx == CHOOSE i \in DOMAIN t.columns : t.columns[i] = col
        IN 2 + Max(max_val_len_for_col(t, idx), max_col_len(t))]

\* build_hline(row)
build_hline(row, sizes) ==
    <<"+">> \o Join([i \in DOMAIN row |-> Repeat("-", sizes[row[i]])], "+") \o <<"+">>

\* build_data(row, align) with align_center
build_header(row, columns, sizes) ==
    <<"|">> \o Join([i \in DOMAIN row |-> align_center(row[i], sizes[columns[i]])], "|")
            \o <<"|">>

\* build_data(row, align) with align_right
build_row(row, columns, sizes) ==
    <<"|">> \o Join([i \in DOMAIN row |-> align_right(row[i], sizes[columns[i]])], "|")
            \o <<"|">>

\* the letter the headers of column i are made of: the columns of a DataFrame
\* built from a dict have distinct names
ColumnLetters == <<"r", "c", "k", "m", "n">>

\* the tables of c columns and r rows
TablesOf(c, r) ==
    {[columns |-> [i \in 1..c |-> Repeat(ColumnLetters[i], h[i])],
      rows |-> [j \in 1..r |-> [i \in 1..c |-> Repeat("x", cells[j][i])]]] :
        h \in [1..c -> 1..MaxLen], cells \in [1..r -> [1..c -> 0..MaxLen]]}

\* the DataFrames drawn: no column at all, or up to MaxCols columns and
\* up to MaxCells cells
Tables ==
    {NoTable} \cup
    UNION {TablesOf(s[1], s[2]) :
              s \in {x \in (1..MaxCols) \X (0..MaxCells) : x[1] * x[2] <= MaxCells}}

InitTable ==
    /\ df \in Tables
    /\ pc = "_tableize"
    /\ argv = <<>>
    /\ cmd = ""
    /\ args = <<>>
    /\ dict_args = EmptyDict
    /\ frame = [fn |-> "_tableize"]
    /\ stdin_read = <<>>
    /\ calls = <<>>
    /\ returned = 0
    /\ invoked = <<>>
    /\ stdout = <<>>
    /\ exit_code = -1
    /\ error = "none"
    /\ out = <<>>
    /\ col_sizes = <<>>
    /\ row_idx = 0

\* _tableize up to its loop: the sizes, and out = [hline, header, hline];
\* max_len_in_lst of an empty list is an IndexError
tableize ==
    /\ pc = "_tableize"
    /\ IF df.columns = <<>> \/ df.rows = <<>>
       THEN Raise("IndexError", <<>>) /\ UNCHANGED <<out, col_sizes>>
       ELSE LET sizes == build_col_sizes(df)
                hline == build_hline(df.columns, sizes)
            IN /\ col_sizes' = sizes
               /\ out' = <<hline, build_header(df.columns, df.columns, sizes), hline>>
               /\ pc' = "_tableize.rows"
               /\ UNCHANGED <<exit_code, stdout, error>>
    /\ UNCHANGED <<argv, cmd, args, dict_args, frame, stdin_read, calls, returned, invoked,
                   df, row_idx>>

\* one turn of `for _, row in df.iterrows()`
tableize_row ==
    /\ pc = "_tableize.rows"
    /\ row_idx < Len(df.rows)
    /\ row_idx' = row_idx + 1
    /\ out' = Append(out, build_row(df.rows[row_idx + 1], df.columns, col_sizes))
    /\ UNCHANGED <<cliVars, df, col_sizes>>

\* out.append(hline); return "\n".join(out)
tableize_return ==
    /\ pc = "_tableize.rows"
    /\ row_idx = Len(df.rows)
    /\ out' = Append(out, build_hline(df.columns, col_sizes))
    /\ pc' = "_tableize.return"
    /\ UNCHANGED <<argv, cmd, args, dict_args, frame, stdin_read, calls, returned, invoked,
                   stdout, exit_code, error, df, col_sizes, row_idx>>

\* the value _tableize returns
rendered == Join(out, "\n")

NextTable == tableize \/ tableize_row \/ tableize_return

SpecTable == InitTable /\ [][NextTable]_vars

(***************************************************************************)
(* Properties.  What the specification of the program says is stated with  *)
(* its own notions, defined here and used by no action: splitting on       *)
(* whitespace and the lookup of a key in the alias table.                  *)
(***************************************************************************)
RECURSIVE WsSplit(_, _)
\* the whitespace-separated tokens of s; cur is the token being read
WsSplit(s, cur) ==
    IF s = <<>> THEN (IF cur = <<>> THEN <<>> ELSE <<cur>>)
    ELSE IF Head(s) \in Whitespace
    THEN (IF cur = <<>> THEN <<>> ELSE <<cur>>) \o WsSplit(Tail(s), <<>>)
    ELSE WsSplit(Tail(s), Append(cur, Head(s)))

WsTokens(s) == WsSplit(s, <<>>)

IsPrefix(s, t) == Len(s) <= Len(t) /\ s = SubSeq(t, 1, Len(s))

\* the keyword arguments of the calls of Igel, oldest first
IgelCalls == SelectSeq(calls, LAMBDA c : c.fn = "Igel")
IgelKwargs == [i \in 1..Len(IgelCalls) |-> IgelCalls[i].kwargs]

ExitedNormally == pc = "exit" /\ exit_code = 0 /\ error = "none"

\* the handler named by the command has been called and has run to its first
\* prompt or opaque call, or to its end
HandlerActed(c) == cmd = c /\ invoked = <<c>> /\ pc # c

\* experiment was given data_paths and yaml_path
ArgumentProvided ==
    /\ HandlerActed("experiment")
    /\ {"data_paths", "yaml_path"} \subseteq Keys(dict_args)

\* the three calls the specification expects for the paths p and the yaml file y
ExpectedStages(p, y) ==
    <<[cmd |-> S("fit"), data_path |-> p[1], yaml_path |-> y],
      [cmd |-> S("evaluate"), data_path |-> p[2]],
      [cmd |-> S("predict"), data_path |-> p[3]]>>

\* v is "p1 p2 p3": three paths with one space between them
ThreeSingleSpaced(v) ==
    /\ Len(WsTokens(v)) = 3
    /\ v = WsTokens(v)[1] \o <<Space>> \o WsTokens(v)[2] \o <<Space>> \o WsTokens(v)[3]

\* C1: experiment given data_paths = "p1 p2 p3" and yaml_path = y calls Igel with
\* {cmd: fit, data_path: p1, yaml_path: y}, then {cmd: evaluate, data_path: p2},
\* then {cmd: predict, data_path: p3}, with no other key, whatever other flags
\* were given: the first call is out once the handler has acted, the calls made
\* are at every moment the first ones of these three, and a run that ends
\* normally has made exactly the three (a run a failing stage ends has made
\* the calls up to that stage).
C1_ExperimentStages ==
    (ArgumentProvided /\ ThreeSingleSpaced(Get(dict_args, "data_paths"))) =>
        LET expected == ExpectedStages(WsTokens(Get(dict_args, "data_paths")),
                                       Get(dict_args, "yaml_path"))
        IN /\ Len(calls) >= 1
           /\ IgelCalls = calls
           /\ IsPrefix(IgelKwargs, expected)
           /\ (pc = "experiment.evaluate" => Len(calls) = 1)
           /\ (pc = "experiment.predict" => Len(calls) = 2)
           /\ (pc = "exit" /\ error = "none" => exit_code = 0 /\ IgelKwargs = expected)

\* C1 witness: an experiment with -DP "a.csv b.csv c.csv", -yml and a third flag
\* has ended normally after its three calls
C1_Witness ==
    /\ ArgumentProvided
    /\ ThreeSingleSpaced(Get(dict_args, "data_paths"))
    /\ "model_name" \in Keys(dict_args)
    /\ ExitedNormally
    /\ Len(calls) = 3

\* the commands of the calls of Igel, oldest first
StageNames == [i \in 1..Len(IgelKwargs) |-> Concat(IgelKwargs[i].cmd)]

\* C2: in a run of experiment the stage calls are fit, evaluate, predict in
\* this order, each at most once; at most one call is in progress, and a call
\* begins only when every earlier call has returned; a call that fails ends
\* the process with exit code 1, and no call is issued after it.
C2_StagesSequential ==
    /\ [](cmd = "experiment" =>
            /\ IgelCalls = calls
            /\ IsPrefix(StageNames, <<"fit", "evaluate", "predict">>)
            /\ returned <= Len(calls)
            /\ Len(calls) - returned <= 1
            /\ (returned < Len(calls) =>
                    pc = "Igel" \/ (pc = "exit" /\ error = "OpaqueError"))
            /\ (error = "OpaqueError" =>
                    pc = "exit" /\ exit_code = 1 /\ returned = Len(calls) - 1))
    /\ [][cmd = "experiment" /\ calls' # calls =>
            /\ returned = Len(calls)
            /\ Len(calls') = Len(calls) + 1
            /\ error = "none"]_vars

\* C2 witness: evaluate has failed after fit returned; predict was never called
C2_Witness ==
    /\ cmd = "experiment"
    /\ StageNames = <<"fit", "evaluate">>
    /\ returned = 1
    /\ pc = "exit"
    /\ error = "OpaqueError"

RECURSIVE StripLeadingHyphens(_)
StripLeadingHyphens(s) ==
    IF s # <<>> /\ Head(s) = Hyphen THEN StripLeadingHyphens(Tail(s)) ELSE s

NotFound == "NotFound"

\* the specification's resolve: the canonical name of a key token, its
\* leading hyphens stripped, or NotFound
Resolve(token) ==
    LET key == Concat(StripLeadingHyphens(token))
    IN IF key \in DOMAIN available_args THEN available_args[key]
       ELSE IF key \in available_args_values THEN key
       ELSE NotFound

\* the positions of the keys that have a value in the remainder a
PairedKeys(a) == {i \in DOMAIN a : i % 2 = 1 /\ i + 1 <= Len(a)}

\* the value of the last pair of a whose key resolves to the canonical name c
LastValue(a, c) ==
    LET last == CHOOSE i \in PairedKeys(a) :
                    /\ Resolve(a[i]) = c
                    /\ \A j \in PairedKeys(a) : Resolve(a[j]) = c => j <= i
    IN a[last + 1]

\* C3: when every paired key is in the alias table, normalize raises no error
\* and returns, for each canonical name some key resolves to, the value of
\* the last pair whose key resolves to it.
C3_LastWriteWins ==
    (pc \notin {"start", "parsed"} /\ cmd # ""
        /\ \A i \in PairedKeys(args) : Resolve(args[i]) # NotFound) =>
        /\ "Unrecognized argument" \notin {stdout[i] : i \in DOMAIN stdout}
        /\ pc = "converted" =>
            \A i \in PairedKeys(args) :
                /\ Resolve(args[i]) \in Keys(dict_args)
                /\ Get(dict_args, Resolve(args[i])) = LastValue(args, Resolve(args[i]))

\* C4: a paired key that is not in the alias table, at any position, ends the
\* process with exit code 1 before any handler is called, any prompt is read
\* or any opaque operation is called (stated for the runs whose command token
\* is a command).
C4_UnknownKeyExits ==
    (argv # <<>> /\ Concat(argv[1]) \in Commands
        /\ \E i \in PairedKeys(Tail(argv)) : Resolve(Tail(argv)[i]) = NotFound) =>
        /\ pc \in {"start", "parsed", "exit"}
        /\ pc = "exit" => exit_code = 1
        /\ invoked = <<>>
        /\ stdin_read = <<>>
        /\ calls = <<>>

\* C5: a command token outside the fixed set of commands prints "Unrecognized
\* command" and ends the process with exit code 1, and nothing is called
\* (stated for the tokens argparse reads as the positional command).
C5_UnknownCommandExits ==
    (argv # <<>> /\ Head(argv[1]) # Hyphen /\ Concat(argv[1]) \notin Commands) =>
        /\ pc \in {"start", "exit"}
        /\ pc = "exit" => exit_code = 1 /\ stdout = <<"Unrecognized command", "usage">>
        /\ invoked = <<>>
        /\ stdin_read = <<>>
        /\ calls = <<>>

\* the states in which the process waits at a prompt of fit, evaluate,
\* predict or experiment
PromptPcs ==
    {"_accept_user_input.data_path", "_accept_user_input.yaml_path", "experiment.input"}

\* what normalize returned for this run
Normalized == convert_args_to_dict(args, cmd).d

Defaults ==
    {default_data_path, default_yaml_path, default_train_data_path,
     default_eval_data_path, default_test_data_path}

C7_CallHasDataPath ==
    \A i \in DOMAIN IgelKwargs :
        /\ {"cmd", "data_path"} \subseteq DOMAIN IgelKwargs[i]
        /\ DOMAIN IgelKwargs[i] \subseteq
              {"cmd", "data_path", "yaml_path", "model_name", "model_type", "target"}

\* C8: experiment given flags, with a data_paths that does not hold exactly
\* three whitespace-separated tokens, fails before any stage call.
C8_MalformedFailsFirst ==
    (HandlerActed("experiment") /\ "data_paths" \in Keys(dict_args)
        /\ Len(WsTokens(Get(dict_args, "data_paths"))) # 3) =>
        /\ calls = <<>>
        /\ pc = "exit"
        /\ exit_code # 0

\* C9: experiment given a yaml_path and a data_paths of three paths separated
\* by one or more whitespace characters, with or without whitespace around
\* them, issues its stages with the three paths in order.
C9_WhitespaceSplit ==
    (ArgumentProvided /\ Len(WsTokens(Get(dict_args, "data_paths"))) = 3) =>
        /\ error # "ValueError"
        /\ Len(calls) >= 1
        /\ IsPrefix(IgelKwargs,
                    ExpectedStages(WsTokens(Get(dict_args, "data_paths")),
                                   Get(dict_args, "yaml_path")))

\* the width of column i in a rendered line: the length of what stands
\* between its two separators
RenderedWidth(line, i) == Len(SplitOn(line, line[1], <<>>)[i + 1])

MaxOf(ns) == CHOOSE n \in ns : \A m \in ns : m <= n

LongestCell(i) == MaxOf({Len(df.rows[r][i]) : r \in DOMAIN df.rows})

LongestHeader == MaxOf({Len(df.columns[i]) : i \in DOMAIN df.columns})

TableStarted == pc \in {"_tableize.rows", "_tableize.return"}

\* C10 as stated: in every rendered line, the width of a column is
\* 2 + max(length of its own header, length of its longest cell).
C10_OwnHeaderWidth ==
    TableStarted =>
        \A k \in DOMAIN out : \A i \in DOMAIN df.columns :
            RenderedWidth(out[k], i) = 2 + Max(Len(df.columns[i]), LongestCell(i))

\* C10 amended: in every rendered line, the width of a column is
\* 2 + max(length of the longest header of the table, length of the longest
\* cell of that column); it is at least the width stated, and it does not
\* depend on the cells of any other column.
C10_LongestHeaderWidth ==
    TableStarted =>
        \A k \in DOMAIN out : \A i \in DOMAIN df.columns :
            /\ RenderedWidth(out[k], i) = 2 + Max(LongestHeader, LongestCell(i))
            /\ RenderedWidth(out[k], i) >= 2 + Max(Len(df.columns[i]), LongestCell(i))

\* C10 witness: a table of two columns is rendered whose first column, header
\* and cells, is shorter than the header of the second
C10_Witness ==
    /\ pc = "_tableize.return"
    /\ Len(df.columns) = 2
    /\ Max(Len(df.columns[1]), LongestCell(1)) < Len(df.columns[2])
    /\ Len(out) = Len(df.rows) + 4

\* the text of column i in the rendered header row
HeaderField(i) == SplitOn(out[2], "|", <<>>)[i + 1]

\* the spaces to the left and to the right of the header text of column i
LeftPad(i) == Len(HeaderField(i)) - Len(LStrip(HeaderField(i)))
RightPad(i) == Len(HeaderField(i)) - Len(RStrip(HeaderField(i)))

\* C11: in the rendered header row every header stands in its column with
\* L spaces to its left and R to its right, where L + R is the width minus
\* the length of the header, L is R or R + 1, and L and R are at least 1.
C11_HeaderCentered ==
    TableStarted =>
        \A i \in DOMAIN df.columns :
            /\ Strip(HeaderField(i)) = df.columns[i]
            /\ LeftPad(i) + RightPad(i) = col_sizes[df.columns[i]] - Len(df.columns[i])
            /\ LeftPad(i) \in {RightPad(i), RightPad(i) + 1}
            /\ LeftPad(i) >= 1
            /\ RightPad(i) >= 1

\* the model_type a models query specifies: the second line typed, or the flag
QueriedModelType ==
    IF Len(stdin_read) >= 2 THEN stdin_read[2] ELSE GetOrNone(dict_args, "model_type")

\* C12: a models run whose query specifies a non-empty model_type that is none
\* of regression, classification, clustering - by flag or at the prompt, with
\* or without a model_name - ends in an uncaught error, never normally.
C12_InvalidTypeFatal ==
    (/\ cmd = "models"
     /\ invoked = <<"models">>
     /\ pc = "exit"
     /\ QueriedModelType # <<>>
     /\ QueriedModelType \notin ModelTypes)
        => /\ error # "none"
           /\ exit_code = 1
           /\ ~ExitedNormally

\* the key token has a hyphen after its leading hyphens
InteriorHyphen(token) ==
    \E j \in DOMAIN StripLeadingHyphens(token) : StripLeadingHyphens(token)[j] = Hyphen

\* C13: normalize strips the leading hyphens of a key only, so a paired key
\* with a hyphen inside it is looked up with that hyphen and rejected as an
\* unrecognized argument: exit code 1, nothing normalized, no handler called
\* (stated for the runs whose command token is a command).
C13_InteriorHyphensKept ==
    \A i \in PairedKeys(args) :
        (cmd \in Commands /\ InteriorHyphen(args[i])) =>
            /\ Resolve(args[i]) = NotFound
            /\ pc = "exit"
            /\ exit_code = 1
            /\ "Unrecognized argument" \in {stdout[k] : k \in DOMAIN stdout}
            /\ dict_args = EmptyDict
            /\ invoked = <<>>

\* what the specification stores for a line read at a prompt with default dflt
Stored(line, dflt) == IF Len(line) = 0 THEN dflt ELSE line

\* C14: in interactive fallback each field read takes its stated default for
\* an empty line and the line itself otherwise, in the order of the fields:
\* fit reads data_path (./train_data.csv) then yaml_path (./igel.yaml) and
\* calls Igel with them; experiment reads train (./train_data.csv), eval
\* (./eval_data.csv), test (./test_data.csv) and yaml (./igel.yaml) and its
\* stages are {fit, train, yaml}, {evaluate, eval}, {predict, test}.
C14_PromptDefaults ==
    /\ (HandlerActed("fit") /\ stdin_read # <<>>) =>
          LET data == Stored(stdin_read[1], S("./train_data.csv"))
          IN /\ Len(stdin_read) <= 2
             /\ Get(dict_args, "data_path") = data
             /\ Len(stdin_read) = 1 =>
                   /\ "yaml_path" \notin Keys(dict_args)
                   /\ calls = <<>>
             /\ Len(stdin_read) = 2 =>
                   /\ Get(dict_args, "yaml_path") = Stored(stdin_read[2], S("./igel.yaml"))
                   /\ calls = <<[fn |-> "Igel",
                                 kwargs |-> [cmd |-> S("fit"), data_path |-> data,
                                             yaml_path |-> Stored(stdin_read[2],
                                                                  S("./igel.yaml"))]]>>
    /\ (HandlerActed("experiment") /\ stdin_read # <<>>) =>
          /\ Len(stdin_read) <= 4
          /\ Len(stdin_read) < 4 => calls = <<>>
          /\ Len(stdin_read) = 4 =>
                LET expected ==
                        ExpectedStages(<<Stored(stdin_read[1], S("./train_data.csv")),
                                         Stored(stdin_read[2], S("./eval_data.csv")),
                                         Stored(stdin_read[3], S("./test_data.csv"))>>,
                                       Stored(stdin_read[4], S("./igel.yaml")))
                IN /\ Len(calls) >= 1
                   /\ IgelCalls = calls
                   /\ IsPrefix(IgelKwargs, expected)
                   /\ ExitedNormally => IgelKwargs = expected

\* C14 witness: an experiment whose four prompts all got an empty line has
\* ended normally after its three stages
C14_Witness ==
    /\ HandlerActed("experiment")
    /\ stdin_read = <<<<>>, <<>>, <<>>, <<>>>>
    /\ ExitedNormally
    /\ Len(calls) = 3

RECURSIVE SumWidths(_)
\* the sum of the widths of the columns named in cols
SumWidths(cols) ==
    IF cols = <<>> THEN 0 ELSE col_sizes[Head(cols)] + SumWidths(Tail(cols))

\* C15: every line of a rendered table - the rules, the header row and
\* every data row - has the same length, the sum of the column widths plus
\* the number of columns plus 1; the finished table has three rules, one
\* header row and one line per data row.
C15_LinesSameLength ==
    TableStarted =>
        /\ \A k \in DOMAIN out :
              Len(out[k]) = SumWidths(df.columns) + Len(df.columns) + 1
        /\ \A k, l \in DOMAIN out : Len(out[k]) = Len(out[l])
        /\ Len(out) = 3 + row_idx + (IF pc = "_tableize.return" THEN 1 ELSE 0)
        /\ pc = "_tableize.return" => row_idx = Len(df.rows)

\* C15 witness: a table of two columns and two rows with cells of different
\* lengths has been rendered
C15_Witness ==
    /\ pc = "_tableize.return"
    /\ Len(df.columns) = 2
    /\ Len(df.rows) = 2
    /\ Len(df.rows[1][1]) # Len(df.rows[2][1])
    /\ Len(df.columns[1]) # Len(df.columns[2])
    /\ Len(out) = 6

\* the remainder a without its last token
Front(a) == SubSeq(a, 1, Len(a) - 1)

\* every paired key of the remainder a is one the lookup of normalize finds
PairedKeysKnown(a) ==
    \A i \in PairedKeys(a) :
        ReplaceHyphens(a[i]) \in DOMAIN available_args \cup available_args_values

\* C16: for a remainder of odd length normalize pairs the tokens (0,1), (2,3),
\* ... and drops the last one: the result is that of the remainder without
\* its last token, the dropped token is neither a key nor a value of it, and
\* it is not validated - with known paired keys there is no exit 1.
C16_DanglingDropped ==
    (pc \notin {"start", "parsed"} /\ cmd # "" /\ Len(args) % 2 = 1) =>
        /\ Normalized = convert_args_to_dict(Front(args), cmd).d
        /\ convert_args_to_dict(args, cmd) = convert_args_to_dict(Front(args), cmd)
        /\ PairedKeysKnown(Front(args)) =>
              "Unrecognized argument" \notin {stdout[i] : i \in DOMAIN stdout}
        /\ pc = "converted" =>
              /\ dict_args = convert_args_to_dict(Front(args), cmd).d
              /\ Cardinality(Keys(dict_args) \ {"cmd"}) <= Cardinality(PairedKeys(args))
              /\ \A i \in DOMAIN dict_args : dict_args[i].v # args[Len(args)]
              /\ ReplaceHyphens(args[Len(args)]) \in Keys(dict_args) =>
                    \E j \in PairedKeys(args) :
                        Resolve(args[j]) = ReplaceHyphens(args[Len(args)])

\* C16 witness: fit given -dp x.csv and a last token -foo without a value has
\* been normalized to data_path and cmd
C16_Witness ==
    /\ pc = "converted"
    /\ cmd = "fit"
    /\ args = <<<<Hyphen, "dp">>, S("x.csv"), <<Hyphen, "foo">>>>
    /\ Keys(dict_args) = {"data_path", "cmd"}

\* the (short, canonical) pairs of the alias table, as the specification lists them
Aliases ==
    {<<"dp", "data_path">>, <<"yml", "yaml_path">>, <<"DP", "data_paths">>,
     <<"name", "model_name">>, <<"model", "model_name">>, <<"type", "model_type">>,
     <<"tg", "target">>}

CanonicalNames == {al[2] : al \in Aliases}

\* the remainder is one (key, value) pair, with or without an unpaired last token
OnePair == Len(args) \in {2, 3}

\* C17: for every (short, canonical) pair of the alias table and every value
\* v, normalize of [short, v] and of [canonical, v] both return
\* {canonical: v, cmd: command}; every key of a returned mapping is a
\* canonical name or cmd, never a short form.
C17_AliasEquivalence ==
    (pc \notin {"start", "parsed"} /\ cmd # "") =>
        /\ \A al \in Aliases :
              (OnePair /\ Concat(StripLeadingHyphens(args[1])) \in {al[1], al[2]}) =>
                  /\ convert_args_to_dict(args, cmd).ok
                  /\ Normalized = <<[k |-> al[2], v |-> args[2]],
                                    [k |-> "cmd", v |-> S(cmd)]>>
                  /\ "Unrecognized argument" \notin {stdout[i] : i \in DOMAIN stdout}
                  /\ pc = "converted" => dict_args = Normalized
        /\ pc = "converted" =>
              /\ Keys(dict_args) \subseteq CanonicalNames \cup {"cmd"}
              /\ Keys(dict_args) \cap {al[1] : al \in Aliases} = {}

\* C17 witness: normalize has returned {target: x.csv, cmd: fit} for the one
\* pair -tg x.csv
C17_Witness ==
    /\ pc = "converted"
    /\ cmd = "fit"
    /\ args = <<<<Hyphen, "tg">>, S("x.csv")>>
    /\ dict_args = <<[k |-> "target", v |-> S("x.csv")], [k |-> "cmd", v |-> S("fit")]>>

\* the command token is one of the commands
ValidCommand == argv # <<>> /\ Concat(argv[1]) \in Commands

\* sys.argv[2:]
Remainder == IF argv = <<>> THEN <<>> ELSE Tail(argv)

\* every paired key of the remainder is in the alias table
ValidFlags == \A i \in PairedKeys(Remainder) : Resolve(Remainder[i]) # NotFound

\* the command check and the normalization have both completed and the
\* attribute named by the command has been looked up and called
Dispatched == pc \notin {"start", "parsed", "converted"}

\* C18: in every run at most one command handler is invoked, at most once:
\* exactly one, the handler of the command, when the command token and all
\* paired flags are valid, none when either is not; and only after the
\* command check and the normalization have both completed.
C18_OneHandler ==
    /\ Len(invoked) <= 1
    /\ invoked # <<>> =>
          /\ ValidCommand
          /\ ValidFlags
          /\ invoked = <<Concat(argv[1])>>
          /\ Dispatched
          /\ cmd = Concat(argv[1])
          /\ args = Remainder
    /\ (ValidCommand /\ ValidFlags /\ Dispatched) => invoked = <<Concat(argv[1])>>
    /\ (ValidCommand /\ ValidFlags) => ~(pc = "exit" /\ invoked = <<>>)

\* the runs in which the checks of the code and of the specification agree:
\* the command token is no other attribute of CLI and no paired key has a
\* hyphen inside it
ChecksAgree ==
    /\ argv # <<>> => Concat(argv[1]) \notin OtherAttributes
    /\ \A i \in PairedKeys(Remainder) : ~InteriorHyphen(Remainder[i])

\* in the runs in which the checks agree, one handler at most is invoked, as
\* stated above
OneHandlerWhereChecksAgree == ChecksAgree => C18_OneHandler

\* the key token spells cmd, with any hyphen prefix
SpellsCmd(token) == Concat(StripLeadingHyphens(token)) = "cmd"

\* C19: the key cmd cannot be set from the command line: a paired key spelled
\* cmd, with any hyphen prefix, is rejected as an unrecognized argument, and
\* in every normalized argument set, before and after the handler is called,
\* the value of cmd is the command token argv[1].
C19_CmdReserved ==
    (pc \notin {"start", "parsed"} /\ cmd # "") =>
        /\ (\E i \in PairedKeys(args) : SpellsCmd(args[i])) =>
              /\ pc = "exit"
              /\ exit_code = 1
              /\ "Unrecognized argument" \in {stdout[k] : k \in DOMAIN stdout}
              /\ dict_args = EmptyDict
              /\ invoked = <<>>
        /\ (pc = "converted" \/ invoked # <<>>) =>
              /\ "cmd" \in Keys(dict_args)
              /\ Get(dict_args, "cmd") = argv[1]
              /\ Cardinality({i \in DOMAIN dict_args : dict_args[i].k = "cmd"}) = 1
              /\ \A i \in PairedKeys(args) : ~SpellsCmd(args[i])

\* C19 witness: fit given -dp x.csv and then -cmd predict has ended with exit
\* code 1 and no handler called
C19_Witness ==
    /\ cmd = "fit"
    /\ args = <<<<Hyphen, "dp">>, S("x.csv"), <<Hyphen, "cmd">>, S("predict")>>
    /\ pc = "exit"
    /\ exit_code = 1
    /\ invoked = <<>>
    /\ calls = <<>>

\* the run is on the interactive path of experiment
ExperimentInteractive == HandlerActed("experiment") /\ Pop(Normalized, "cmd") = EmptyDict

\* C20: on the interactive path of experiment the four values are read, in
\* the order train path, eval path, test path, yaml path, before the first
\* stage call; no line is read after a stage call has started, and no stage
\* call is made between two prompts.
C20_PromptsBeforeStages ==
    /\ [](ExperimentInteractive =>
            /\ Len(stdin_read) <= 4
            /\ pc = "experiment.input" => calls = <<>> /\ Len(stdin_read) < 4
            /\ Len(stdin_read) < 4 => calls = <<>>
            /\ calls # <<>> =>
                  /\ Len(stdin_read) = 4
                  /\ IgelKwargs[1].data_path = Stored(stdin_read[1], S("./train_data.csv"))
                  /\ IgelKwargs[1].yaml_path = Stored(stdin_read[4], S("./igel.yaml"))
            /\ Len(calls) >= 2 =>
                  IgelKwargs[2].data_path = Stored(stdin_read[2], S("./eval_data.csv"))
            /\ Len(calls) >= 3 =>
                  IgelKwargs[3].data_path = Stored(stdin_read[3], S("./test_data.csv")))
    /\ [][cmd = "experiment" =>
            /\ calls # <<>> => stdin_read' = stdin_read
            /\ stdin_read' # stdin_read =>
                  /\ calls = <<>>
                  /\ Len(stdin_read') = Len(stdin_read) + 1
                  /\ SubSeq(stdin_read', 1, Len(stdin_read)) = stdin_read
                  /\ calls' # calls => Len(stdin_read') = 4]_vars

\* C20 witness: an interactive experiment has read four different answers
\* and is in its second stage call
C20_Witness ==
    /\ ExperimentInteractive
    /\ stdin_read = <<S("typed.csv"), <<>>, S("regression"), <<>>>>
    /\ Len(calls) = 2
    /\ pc = "Igel"

\* experiment was given at least one flag, but not both data_paths and yaml_path
ExperimentFlagMissing ==
    /\ HandlerActed("experiment")
    /\ Pop(Normalized, "cmd") # EmptyDict
    /\ ~({"data_paths", "yaml_path"} \subseteq Keys(Normalized))

====
